---- MODULE Spec2Model ----
(***************************************************************************)
(* SeamLang: AST-to-IR lowering (src/seam/code_generation) and the pass    *)
(* driver (src/seam/parser/passes).  The IR is modelled structurally: a    *)
(* module is a sequence of functions, a function a sequence of basic       *)
(* blocks, a block a sequence of instructions.  An llvm::Function* is the  *)
(* function's index in the module, an llvm::BasicBlock* the block's index  *)
(* in its function, an instruction result the instruction's id.            *)
(***************************************************************************)
EXTENDS Integers, Sequences, FiniteSets, TLC

VARIABLES
    pc,                         \* position inside generate()
    mod_,                       \* the translation unit: sequence of top-level definitions
    collected_extern_functions, \* function_collector::collected_extern_functions
    collected_functions,        \* function_collector::collected_functions
    idx,                        \* index of the running for-loop of generate()
    function_type_map,          \* code_generation::function_type_map
    llvm_module,                \* code_generation::llvm_module (its function list)
    constructor_functions,      \* code_generation::constructor_functions
    entry_function,             \* the function generate() synthesizes (0: not yet)
    verify_errors,              \* verifier verdicts that generate()/compile_function received
    returned,                   \* TRUE once generate() has returned llvm_module
    err,                        \* message of the exception that unwound generate(), or ""
    log,                        \* trace of builder events of the lowering (history)
    calls,                      \* history of direct API calls (pure-function specifications)
    type_collector_,            \* run_passes: the collector's type_map_ and function_map_
    type_resolver_              \* run_passes: the tables the resolver was constructed with

vars == <<pc, mod_, collected_extern_functions, collected_functions, idx,
          function_type_map, llvm_module, constructor_functions, entry_function,
          verify_errors, returned, err, log, calls, type_collector_, type_resolver_>>

\* the locals of pass::run_passes
passVars == <<type_collector_, type_resolver_>>

\* a pass object that is not constructed
NotConstructed == [constructed |-> FALSE, type_map_ |-> <<>>, function_map_ |-> <<>>]

----------------------------------------------------------------------------
(* Bounds of the model *)

MaxDefs == 2        \* top-level definitions of a "wide" translation unit
MaxStmts == 3       \* statement nodes in the body of a "deep" function
MaxArgs == 2        \* arguments of a call expression
MaxNodes == 3       \* declarations under the root that run_passes is given
MaxCalls == 3       \* direct calls in the pure-function specifications
MaxVisits == 2      \* nodes the visitor is handed one by one in a function body

----------------------------------------------------------------------------
(* Sequence helpers *)

Last(s) == s[Len(s)]

Range(s) == {s[i] : i \in 1..Len(s)}

\* the element of a one-element set
The(S) == CHOOSE x \in S : TRUE

\* F applied to the value of v, which is computed once
Bind(v, F(_)) == The({F(b) : b \in {v}})

RECURSIVE SeqsUpTo(_, _)
SeqsUpTo(S, n) ==
    IF n = 0 THEN {<<>>}
    ELSE LET shorter == SeqsUpTo(S, n - 1)
         IN  shorter \cup {Append(s, x) : s \in {t \in shorter : Len(t) = n - 1}, x \in S}

----------------------------------------------------------------------------
(* Type descriptors (ir::ast::type): a built-in tag, "class" for a         *)
(* user-defined type reference, "unknown" for a tag outside the enum.      *)

BuiltInTags == {"void", "bool", "u8", "i8", "u16", "i16", "u32", "i32",
                "u64", "i64", "f32", "f64", "string"}

TypeDescriptors == BuiltInTags \cup {"class", "unknown"}

\* get_llvm_type with bool lowered to a byte instead of a 1-bit integer
get_llvm_type_bool_as_byte(t) ==
    CASE t = "void"           -> [ty |-> "void",   err |-> ""]
      [] t \in {"bool", "u8", "i8"} -> [ty |-> "i8", err |-> ""]
      [] t \in {"u16", "i16"} -> [ty |-> "i16",    err |-> ""]
      [] t \in {"u32", "i32"} -> [ty |-> "i32",    err |-> ""]
      [] t \in {"u64", "i64"} -> [ty |-> "i64",    err |-> ""]
      [] t = "string"         -> [ty |-> "{size,i8*}", err |-> ""]
      [] t = "f32"            -> [ty |-> "float",  err |-> ""]
      [] t = "f64"            -> [ty |-> "double", err |-> ""]
      [] t = "class"          -> [ty |-> "", err |-> "TODO: class types are not supported"]
      [] OTHER                -> [ty |-> "", err |-> "internal compiler error: unknown type"]

\* get_llvm_type: the IR type, or the exception it throws.  The types of a
\* context are uniqued (Type::getInt8Ty, StructType::get of a literal
\* struct), so an IR type object is identified by its structure.
get_llvm_type(t) ==
    CASE t = "void"           -> [ty |-> "void",   err |-> ""]
      [] t = "bool"           -> [ty |-> "i1",     err |-> ""]
      [] t \in {"u8", "i8"}   -> [ty |-> "i8",     err |-> ""]
      [] t \in {"u16", "i16"} -> [ty |-> "i16",    err |-> ""]
      [] t \in {"u32", "i32"} -> [ty |-> "i32",    err |-> ""]
      [] t \in {"u64", "i64"} -> [ty |-> "i64",    err |-> ""]
      [] t = "string"         -> [ty |-> "{size,i8*}", err |-> ""]
      [] t = "f32"            -> [ty |-> "float",  err |-> ""]
      [] t = "f64"            -> [ty |-> "double", err |-> ""]
      [] t = "class"          -> [ty |-> "", err |-> "TODO: class types are not supported"]
      [] OTHER                -> [ty |-> "", err |-> "internal compiler error: unknown type"]

\* the class of the exception that carries a message: every message of the
\* file is thrown at sites of one class
ExceptionClass(message) ==
    CASE message = "" -> ""
      [] message = "TODO: class types are not supported" -> "std::runtime_error"
      [] message = "bad_variant_access" -> "std::bad_variant_access"
      [] OTHER -> "utils::compiler_exception"

\* llvm::FunctionType::isValidReturnType / isValidArgumentType on the types above
isValidReturnType(ty) == ty \notin {"label", "metadata", "function", "token"}

isValidArgumentType(ty) == ty \notin {"void", "label", "metadata", "function", "token"}

----------------------------------------------------------------------------
(* Function signatures (ir::ast::expression::function_signature).  Names   *)
(* are sequences of strings; the resolver's mangled name of a non-extern   *)
(* signature is the declared name followed by the parameter and return     *)
(* type tags; an extern signature keeps the empty mangled name.            *)

Mangle(name, parameters, return_type, is_extern) ==
    IF is_extern THEN <<>> ELSE name \o parameters \o <<return_type>>

Signature(name, parameters, return_type, is_extern, attributes) ==
    [name |-> name,
     mangled_name |-> Mangle(name, parameters, return_type, is_extern),
     parameters |-> parameters,
     return_type |-> return_type,
     is_extern |-> is_extern,
     attributes |-> attributes]

NoSignature == Signature(<<>>, <<>>, "void", TRUE, {})

\* llvm::FunctionType::get: function types are uniqued by the context, so a
\* function type is identified by its return and parameter types.
FunctionType(ret, params) == [ret |-> ret, params |-> params]

NoFunctionType == FunctionType("", <<>>)

\* the parameter loop of get_llvm_function_type (lines 98-107): the lowered
\* parameter types, or the first exception
RECURSIVE LowerParams(_, _)
LowerParams(parameters, acc) ==
    IF parameters = <<>> THEN [tys |-> acc, err |-> ""]
    ELSE LET p == get_llvm_type(Head(parameters))
         IN  IF p.err # "" THEN [tys |-> acc, err |-> p.err]
             ELSE IF ~isValidArgumentType(p.ty)
                  THEN [tys |-> acc, err |-> "internal compiler error: invalid parameter type"]
                  ELSE LowerParams(Tail(parameters), Append(acc, p.ty))

\* function_type_map.emplace(name, function_type): inserts only if absent
Emplace(map, name, function_type) ==
    IF name \in DOMAIN map THEN map
    ELSE [k \in DOMAIN map \cup {name} |-> IF k = name THEN function_type ELSE map[k]]

\* get_llvm_function_type that looks nothing up and assigns the entry
\* (function_type_map[name] = function_type)
get_llvm_function_type_assign(map, signature) ==
    LET name == signature.mangled_name
        r == get_llvm_type(signature.return_type)
        ps == LowerParams(signature.parameters, <<>>)
    IN  IF r.err # "" THEN [map |-> map, ft |-> NoFunctionType, err |-> r.err]
        ELSE IF ps.err # "" THEN [map |-> map, ft |-> NoFunctionType, err |-> ps.err]
        ELSE [map |-> [k \in DOMAIN map \cup {name} |->
                          IF k = name THEN FunctionType(r.ty, ps.tys) ELSE map[k]],
              ft |-> FunctionType(r.ty, ps.tys), err |-> ""]

\* get_llvm_function_type that reserves the cache entry as soon as the
\* return type is known and completes it once the parameters are lowered
get_llvm_function_type_reserve(map, signature) ==
    LET name == signature.mangled_name
    IN  IF name \in DOMAIN map
        THEN [map |-> map, ft |-> map[name], err |-> ""]
        ELSE LET r == get_llvm_type(signature.return_type)
             IN  IF r.err # "" THEN [map |-> map, ft |-> NoFunctionType, err |-> r.err]
                 ELSE IF ~isValidReturnType(r.ty)
                 THEN [map |-> map, ft |-> NoFunctionType,
                       err |-> "internal compiler error: invalid return type"]
                 ELSE LET ps == LowerParams(signature.parameters, <<>>)
                      IN  IF ps.err # ""
                          THEN [map |-> Emplace(map, name, FunctionType(r.ty, <<>>)),
                                ft |-> NoFunctionType, err |-> ps.err]
                          ELSE [map |-> Emplace(map, name, FunctionType(r.ty, ps.tys)),
                                ft |-> FunctionType(r.ty, ps.tys), err |-> ""]

\* get_llvm_function_type: [map: the cache afterwards, ft: the returned
\* function type, err: the exception thrown or ""]
get_llvm_function_type(map, signature) ==
    LET name == signature.mangled_name
    IN  IF name \in DOMAIN map
        THEN [map |-> map, ft |-> map[name], err |-> ""]
        ELSE LET r == get_llvm_type(signature.return_type)
             IN  IF r.err # "" THEN [map |-> map, ft |-> NoFunctionType, err |-> r.err]
                 ELSE IF ~isValidReturnType(r.ty)
                 THEN [map |-> map, ft |-> NoFunctionType,
                       err |-> "internal compiler error: invalid return type"]
                 ELSE LET ps == LowerParams(signature.parameters, <<>>)
                      IN  IF ps.err # ""
                          THEN [map |-> map, ft |-> NoFunctionType, err |-> ps.err]
                          ELSE LET function_type == FunctionType(r.ty, ps.tys)
                               IN  [map |-> Emplace(map, name, function_type),
                                    ft |-> function_type, err |-> ""]

----------------------------------------------------------------------------
(* IR entities *)

\* an llvm::Value*: k is the kind of value ("null", "const", "func", or the
\* opcode of the instruction that produced it), n its identity
Value(k, n, ty) == [k |-> k, n |-> n, ty |-> ty]

NullValue == Value("null", 0, "")

Instruction(op, id, args, tgt, ty) ==
    [op |-> op, id |-> id, args |-> args, tgt |-> tgt, ty |-> ty]

Terminators == {"br", "condbr", "ret", "retvoid"}

IsTerminator(inst) == inst.op \in Terminators

BasicBlock(name) == [name |-> name, insts |-> <<>>]

\* llvm::BasicBlock::getTerminator(): the last instruction if it is a
\* terminator, else null
getTerminator(block) ==
    Len(block.insts) > 0 /\ IsTerminator(Last(block.insts))

\* llvm::Module::getFunction(name): the function's index, 0 for null
getFunction(module, name) ==
    IF \E i \in 1..Len(module) : module[i].name = name
    THEN CHOOSE i \in 1..Len(module) : module[i].name = name
    ELSE 0

\* the module's symbol table keeps names unique: a taken name gets a suffix
RECURSIVE UniqueName(_, _)
UniqueName(module, name) ==
    IF getFunction(module, name) = 0 THEN name
    ELSE UniqueName(module, Append(name, ".1"))

\* llvm::Function::Create(type, linkage, name, module)
FunctionCreate(module, type, linkage, name) ==
    Append(module, [name |-> UniqueName(module, name), type |-> type,
                    linkage |-> linkage, blocks |-> <<>>])

----------------------------------------------------------------------------
(* The state threaded through the lowering of one function: the shared     *)
(* code_generation members (module, function_type_map), the builder (fn,   *)
(* cur), the visitor's members (value, variables), the pending exception.  *)

\* an entry of the history of builder and registry events:
\*   "insert":   builder.Create* of opcode op into block blk of function fn;
\*               had: the block's getTerminator() was non-null just before
\*   "block":    BasicBlock::Create of block blk, named op, in function fn
\*   "declare":  get_or_declare_function(name) returned function fn; had: the
\*               name was registered; n, blk: module size before and after
\*   "variable": visit(variable_ref) of variable n produced slot blk; had: the
\*               variable was found in the storage map
\*   "body":     field op of the if/while node stmts[1] visited with the
\*               cursor in block blk; site: the block's role; n: the id of
\*               the enclosing if/while lowering
\*   "bodyend":  the visit of that field returned with the cursor in block
\*               blk; had: that block ends in a terminator
\*   "before":   visit(if_stat)/visit(while_loop) (op) of lowering n found
\*               the cursor in block blk (for an if: once the condition is
\*               lowered); had: that block ends in a terminator
\*   "after":    visit(if_stat)/visit(while_loop) (op) of lowering n returned
\*               with the cursor in block blk
LogEntry(ev, op, name, fn, blk, had, site, n, stmts) ==
    [ev |-> ev, op |-> op, name |-> name, fn |-> fn, blk |-> blk, had |-> had,
     site |-> site, n |-> n, stmts |-> stmts]

NewState(module, map, trace) ==
    [module |-> module, function_type_map |-> map, err |-> "",
     func |-> 0, fn |-> 0, cur |-> 0, value |-> NullValue, res |-> NullValue,
     variables |-> <<>>, next_id |-> 1, log |-> trace]

\* an exception is pending: every later step of the lowering is skipped
Throw(st0, message) ==
    The({IF st.err # "" THEN st ELSE [st EXCEPT !.err = message] : st \in {st0}})

Logged(st0, entry) ==
    The({IF st.err # "" THEN st ELSE [st EXCEPT !.log = Append(@, entry)] : st \in {st0}})

\* the name under which the module registers a signature's function
ModuleName(signature) ==
    IF signature.is_extern THEN signature.name ELSE signature.mangled_name

Linkage(signature) == IF signature.is_extern THEN "external" ELSE "internal"

\* lines 589-590: the function type is computed, the function created
DeclareFunction(st, signature) ==
    LET r == get_llvm_function_type(st.function_type_map, signature)
    IN  IF r.err # "" THEN Throw(st, r.err)
        ELSE [st EXCEPT !.function_type_map = r.map,
                        !.module = FunctionCreate(st.module, r.ft, Linkage(signature),
                                                  ModuleName(signature)),
                        !.func = Len(st.module) + 1]

\* get_or_declare_function without the lookup of line 586
get_or_declare_function_no_lookup(st0, signature) ==
    The({IF st.err # "" THEN st
         ELSE Bind(DeclareFunction(st, signature), LAMBDA s1 :
              Logged(s1, LogEntry("declare", "", ModuleName(signature), s1.func,
                                  Len(s1.module),
                                  getFunction(st.module, ModuleName(signature)) # 0,
                                  "", Len(st.module), <<>>)))
         : st \in {st0}})

\* get_or_declare_function: st.func is the function returned
get_or_declare_function(st0, signature) ==
    The({IF st.err # "" THEN st
         ELSE Bind(IF getFunction(st.module, ModuleName(signature)) # 0
                   THEN [st EXCEPT !.func = getFunction(st.module, ModuleName(signature))]
                   ELSE DeclareFunction(st, signature), LAMBDA s1 :
              Logged(s1, LogEntry("declare", "", ModuleName(signature), s1.func,
                                  Len(s1.module),
                                  getFunction(st.module, ModuleName(signature)) # 0,
                                  "", Len(st.module), <<>>)))
         : st \in {st0}})

\* llvm::BasicBlock::Create(context, name, parent): appended to the current
\* function; NewBlock(st) is the block it returns
NewBlock(st) == Len(st.module[st.fn].blocks) + 1

BasicBlockCreate(st0, name) ==
    The({IF st.err # "" THEN st
         ELSE [st EXCEPT !.module[st.fn].blocks = Append(@, BasicBlock(name)),
                         !.log = Append(@, LogEntry("block", name, <<>>, st.fn,
                                                    NewBlock(st), FALSE, "", 0, <<>>))]
         : st \in {st0}})

\* builder.SetInsertPoint(block): the cursor moves to the end of block
SetInsertPoint(st0, block) ==
    The({IF st.err # "" THEN st ELSE [st EXCEPT !.cur = block] : st \in {st0}})

\* builder.GetInsertBlock()
GetInsertBlock(st) == st.cur

BlockOf(st, block) == st.module[st.fn].blocks[block]

\* builder.Create*(...): the instruction is appended to the cursor's block;
\* st.res is the value the call returns
Insert(st0, op, args, tgt, ty, site) ==
    The({IF st.err # "" THEN st
         ELSE [st EXCEPT
                 !.module[st.fn].blocks[st.cur].insts =
                     Append(@, Instruction(op, st.next_id, args, tgt, ty)),
                 !.res = Value(op, st.next_id, ty),
                 !.next_id = @ + 1,
                 !.log = Append(@, LogEntry("insert", op, <<>>, st.fn, st.cur,
                                            getTerminator(BlockOf(st, st.cur)),
                                            site, 0, <<>>))]
         : st \in {st0}})

\* value = <what the last builder call returned>
SetValueToResult(st0) ==
    The({IF st.err # "" THEN st ELSE [st EXCEPT !.value = st.res] : st \in {st0}})

SetValue(st0, v) ==
    The({IF st.err # "" THEN st ELSE [st EXCEPT !.value = v] : st \in {st0}})

\* the branch inserted whether or not the block has a terminator
BranchAlways(st0, block, target, site) ==
    The({IF st.err = ""
         THEN Insert(SetInsertPoint(st, block), "br", <<>>, <<target>>, "", site)
         ELSE st
         : st \in {st0}})

\* if (!block->getTerminator()) { builder.SetInsertPoint(block);
\*                                builder.CreateBr(target); }
BranchIfOpen(st0, block, target, site) ==
    The({IF st.err = "" /\ ~getTerminator(BlockOf(st, block))
         THEN Insert(SetInsertPoint(st, block), "br", <<>>, <<target>>, "", site)
         ELSE st
         : st \in {st0}})

----------------------------------------------------------------------------
(* AST nodes.  Expressions: kind, op (binary operation, or the alternative *)
(* held by a number literal), n (literal value or variable identity), ty   *)
(* (evaluated type / variable type), sig (resolved signature), kids.       *)
(* Statements: kind, e (the expressions it owns), main (children, or the   *)
(* statements of main_body / body), els (statements of else_body),         *)
(* has_else (else_body is not null).                                       *)

Expr(kind, op, n, ty, sig, kids) ==
    [kind |-> kind, op |-> op, n |-> n, ty |-> ty, sig |-> sig, kids |-> kids]

Stmt(kind, e, main, els, has_else) ==
    [kind |-> kind, e |-> e, main |-> main, els |-> els, has_else |-> has_else]

BoolLiteral(b) == Expr("bool_literal", "", IF b THEN 1 ELSE 0, "bool", NoSignature, <<>>)
NumberLiteral(alt, n, ty) == Expr("number_literal", alt, n, ty, NoSignature, <<>>)
VariableRef(var, ty) == Expr("variable_ref", "", var, ty, NoSignature, <<>>)
SymbolWrapper(sig) == Expr("symbol_wrapper", "", 0, "", sig, <<>>)
Call(function, arguments) == Expr("call", "", 0, "", NoSignature, <<function>> \o arguments)
Binary(operation, left, right, ty) ==
    Expr("binary", operation, 0, ty, NoSignature, <<left, right>>)

Ret == Stmt("ret", <<>>, <<>>, <<>>, FALSE)
RetValue(e) == Stmt("ret", <<e>>, <<>>, <<>>, FALSE)
ExpressionStmt(e) == Stmt("expression_", <<e>>, <<>>, <<>>, FALSE)
Assignment(to, from) == Stmt("assignment", <<to, from>>, <<>>, <<>>, FALSE)
NormalBlock(body) == Stmt("normal_block", <<>>, body, <<>>, FALSE)
If(c, main) == Stmt("if_stat", <<c>>, main, <<>>, FALSE)
IfElse(c, main, els) == Stmt("if_stat", <<c>>, main, els, TRUE)
While(c, body) == Stmt("while_loop", <<c>>, body, <<>>, FALSE)

----------------------------------------------------------------------------
(* code_gen_visitor: expressions *)

\* the evaluated type is floating point
IsFloatType(ty) == ty \in {"f32", "f64"}

\* the switch of visit(binary): the builder call made for an operation, ""
\* for the default case
BinaryInstruction(operation, float_operation, unsigned_operation) ==
    CASE operation = "symbol_add" ->
            IF float_operation THEN "FAdd" ELSE "Add"
      [] operation = "symbol_minus" ->
            IF float_operation THEN "FSub" ELSE "Sub"
      [] operation = "symbol_multiply" ->
            IF float_operation THEN "FMul" ELSE "Mul"
      [] operation = "symbol_divide" ->
            IF float_operation THEN "FDiv"
            ELSE IF unsigned_operation THEN "UDiv" ELSE "SDiv"
      [] operation = "symbol_eq" ->
            IF float_operation THEN "FCmpOEQ" ELSE "ICmpEQ"
      [] operation = "symbol_neq" ->
            IF float_operation THEN "FCmpONE" ELSE "ICmpNE"
      [] operation = "symbol_lt" ->
            IF float_operation THEN "FCmpOLT"
            ELSE IF unsigned_operation THEN "ICmpULT" ELSE "ICmpSLT"
      [] operation = "symbol_lteq" ->
            IF float_operation THEN "FCmpOLE"
            ELSE IF unsigned_operation THEN "ICmpSLE" ELSE "ICmpSLE"
      [] operation = "symbol_gt" ->
            IF float_operation THEN "FCmpOGT"
            ELSE IF unsigned_operation THEN "ICmpUGT" ELSE "ICmpSGT"
      [] operation = "symbol_gteq" ->
            IF float_operation THEN "FCmpOGE"
            ELSE IF unsigned_operation THEN "ICmpSGE" ELSE "ICmpSGE"
      [] OTHER -> ""

\* visit(number_literal): the constant, or the exception
NumberConstant(node) ==
    IF node.ty \notin BuiltInTags
    THEN [v |-> NullValue, err |-> "bad_variant_access"]
    ELSE IF node.op = "uint64"
    THEN CASE node.ty \in {"u8", "i8"}   -> [v |-> Value("const", node.n, "i8"),  err |-> ""]
           [] node.ty \in {"u16", "i16"} -> [v |-> Value("const", node.n, "i16"), err |-> ""]
           [] node.ty \in {"u32", "i32"} -> [v |-> Value("const", node.n, "i32"), err |-> ""]
           [] node.ty \in {"u64", "i64"} -> [v |-> Value("const", node.n, "i64"), err |-> ""]
           [] OTHER -> [v |-> NullValue,
                        err |-> "internal compiler error: unknown integer type"]
    ELSE IF node.op = "double"
    THEN CASE node.ty = "f32" -> [v |-> Value("const", node.n, "float"),  err |-> ""]
           [] node.ty = "f64" -> [v |-> Value("const", node.n, "double"), err |-> ""]
           [] OTHER -> [v |-> NullValue,
                        err |-> "internal compiler error: unknown floating point type"]
    ELSE [v |-> NullValue, err |-> "internal compiler error: unknown number type"]

\* visit(variable_ref) that allocates the slot in the entry block, where it
\* leaves the cursor
VisitVariableRefInEntry(st, node) ==
    IF node.n \in DOMAIN st.variables
    THEN SetValue(st, st.variables[node.n])
    ELSE IF get_llvm_type(node.ty).err # ""
    THEN Throw(st, get_llvm_type(node.ty).err)
    ELSE SetValueToResult(Insert(SetInsertPoint(st, 1), "alloca", <<>>, <<>>,
                                 get_llvm_type(node.ty).ty, "variable_ref"))

\* visit(variable_ref)
VisitVariableRef(st, node) ==
    IF node.n \in DOMAIN st.variables
    THEN Logged(SetValue(st, st.variables[node.n]),
                LogEntry("variable", "", <<>>, st.fn, st.variables[node.n].n, TRUE,
                         "", node.n, <<>>))
    ELSE IF get_llvm_type(node.ty).err # ""
    THEN Throw(st, get_llvm_type(node.ty).err)
    ELSE Bind(SetValueToResult(Insert(st, "alloca", <<>>, <<>>, get_llvm_type(node.ty).ty,
                                      "variable_ref")), LAMBDA s1 :
         Logged(s1, LogEntry("variable", "", <<>>, s1.fn, s1.value.n, FALSE, "",
                             node.n, <<>>)))

\* visit(symbol_wrapper)
VisitSymbolWrapper(st, node) ==
    Bind(get_or_declare_function(st, node.sig), LAMBDA s1 :
    SetValue(s1, Value("func", s1.func, "")))

RECURSIVE VisitExpr(_, _), VisitArguments(_, _, _)

\* visit(call); VisitArguments leaves the argument values in st.res
VisitCall(st, node) ==
    Bind(VisitExpr(st, node.kids[1]), LAMBDA s1 :
    IF s1.err # "" THEN s1
    ELSE IF s1.value.k # "func"
    THEN Throw(s1, "internal compiler error: expected function for call")
    ELSE Bind(VisitArguments(s1, Tail(node.kids), <<>>), LAMBDA s2 :
         SetValueToResult(Insert(s2.st, "call", <<s1.value>> \o s2.arguments, <<>>, "",
                                 "call"))))

\* visit(binary)
VisitBinary(st, node) ==
    Bind(VisitExpr(st, node.kids[1]), LAMBDA s1 :
    Bind(VisitExpr(s1, node.kids[2]), LAMBDA s2 :
    LET lhs_value == s1.value
        rhs_value == s2.value
        unsigned_operation == FALSE
        float_operation == FALSE
    IN  IF BinaryInstruction(node.op, float_operation, unsigned_operation) = ""
        THEN Throw(s2, "internal compiler error: invalid binary operation")
        ELSE SetValueToResult(
                Insert(s2, BinaryInstruction(node.op, float_operation, unsigned_operation),
                       <<lhs_value, rhs_value>>, <<>>, "", "binary"))))

\* dispatch on the kind of expression node
VisitExpr(st0, node) ==
    The({IF st.err # "" THEN st
         ELSE CASE node.kind = "bool_literal" -> SetValue(st, Value("const", node.n, "i1"))
                [] node.kind = "number_literal" ->
                     IF NumberConstant(node).err # ""
                     THEN Throw(st, NumberConstant(node).err)
                     ELSE SetValue(st, NumberConstant(node).v)
                [] node.kind = "variable_ref" -> VisitVariableRef(st, node)
                [] node.kind = "symbol_wrapper" -> VisitSymbolWrapper(st, node)
                [] node.kind = "call" -> VisitCall(st, node)
                [] node.kind = "binary" -> VisitBinary(st, node)
         : st \in {st0}})

\* the argument loop with each value put in front of the list
RECURSIVE VisitArgumentsInFront(_, _, _)
VisitArgumentsInFront(st, args, acc) ==
    IF args = <<>> \/ st.err # "" THEN [st |-> st, arguments |-> acc]
    ELSE Bind(VisitExpr(st, Head(args)), LAMBDA s1 :
         VisitArgumentsInFront(s1, Tail(args), <<s1.value>> \o acc))

\* the argument loop of visit(call): [st, arguments]
VisitArguments(st, args, acc) ==
    IF args = <<>> \/ st.err # "" THEN [st |-> st, arguments |-> acc]
    ELSE Bind(VisitExpr(st, Head(args)), LAMBDA s1 :
         VisitArguments(s1, Tail(args), Append(acc, s1.value)))

----------------------------------------------------------------------------
(* code_gen_visitor: statements *)

\* a storage slot is replaced by a load of it (visit(ret), visit(assignment))
LoadIfAlloca(st0, site) ==
    The({IF st.err = "" /\ st.value.k = "alloca"
         THEN SetValueToResult(Insert(st, "load", <<st.value>>, <<>>, "", site))
         ELSE st
         : st \in {st0}})

\* visit(ret)
VisitRet(st, node) ==
    IF node.e # <<>>
    THEN Bind(LoadIfAlloca(VisitExpr(st, node.e[1]), "ret.load"), LAMBDA s1 :
         Insert(s1, "ret", <<s1.value>>, <<>>, "", "ret"))
    ELSE Insert(st, "retvoid", <<>>, <<>>, "", "ret")

\* visit(assignment)
VisitAssignment(st, node) ==
    Bind(VisitExpr(st, node.e[1]), LAMBDA s1 :
    Bind(LoadIfAlloca(VisitExpr(s1, node.e[2]), "assignment.load"), LAMBDA s2 :
    LET to == s1.value
        from == s2.value
    IN  Insert(s2, "store", <<from, to>>, <<>>, "", "assignment")))

RECURSIVE VisitStmt(_, _), VisitStmts(_, _)

\* node->main_body / node->else_body / node->body: the statements of a field
Field(node, field) == IF field = "else_body" THEN node.els ELSE node.main

\* node-><field>->visit(this) with the cursor at the start of a fresh block
VisitBody(st, node, field, site, id) ==
    Bind(VisitStmts(Logged(st, LogEntry("body", field, <<>>, st.fn, st.cur, FALSE, site,
                                        id, <<node>>)),
                    Field(node, field)), LAMBDA s1 :
    IF s1.err # "" THEN s1
    ELSE Logged(s1, LogEntry("bodyend", field, <<>>, s1.fn, s1.cur,
                             getTerminator(BlockOf(s1, s1.cur)), site, id, <<node>>)))

\* the visit of an if or while starts in the block of the cursor
Entered(st0, kind, id) ==
    The({IF st.err # "" THEN st
         ELSE Logged(st, LogEntry("before", kind, <<>>, st.fn, st.cur,
                                  getTerminator(BlockOf(st, st.cur)), "", id, <<>>))
         : st \in {st0}})

\* the visit of an if or while returns: the cursor stays where it is
Returned(st0, kind, id) ==
    The({IF st.err # "" THEN st
         ELSE Logged(st, LogEntry("after", kind, <<>>, st.fn, st.cur, FALSE, "", id, <<>>))
         : st \in {st0}})

\* visit(while_loop)
VisitWhile(st, node) ==
    LET start_block == GetInsertBlock(st)
        loop_start_block == NewBlock(st)
    IN  Bind(VisitExpr(SetInsertPoint(
                          BranchIfOpen(BasicBlockCreate(
                                          Entered(st, "while_loop", NewBlock(st)),
                                          "loopstart"), start_block,
                                       loop_start_block, "while.enter"),
                          loop_start_block),
                       node.e[1]), LAMBDA s1 :
        Bind(BranchIfOpen(
                VisitBody(SetInsertPoint(BasicBlockCreate(s1, "loopbody"), NewBlock(s1)),
                          node, "body", "while.body", loop_start_block),
                NewBlock(s1), loop_start_block, "while.back"), LAMBDA s2 :
        LET condition_value == s1.value
            loop_body_block == NewBlock(s1)
            end_block == NewBlock(s2)
        IN  Returned(SetInsertPoint(
                Insert(SetInsertPoint(BasicBlockCreate(s2, "end"), loop_start_block),
                       "condbr", <<condition_value>>, <<loop_body_block, end_block>>, "",
                       "while.cond"),
                end_block), "while_loop", loop_start_block)))

\* visit(if_stat), else_body present (lines 330-357)
VisitIfElse(st, node, condition_value, start_block, main_body_block) ==
    LET else_body_block == NewBlock(st)
    IN  Bind(VisitBody(SetInsertPoint(BasicBlockCreate(st, "elsebody"), else_body_block),
                       node, "main_body", "if.else", main_body_block), LAMBDA s1 :
        LET end_block == NewBlock(s1)
        IN  Returned(SetInsertPoint(
                BranchIfOpen(
                    BranchIfOpen(
                        Insert(SetInsertPoint(BasicBlockCreate(s1, "end"), start_block),
                               "condbr", <<condition_value>>,
                               <<main_body_block, else_body_block>>, "", "if.cond"),
                        main_body_block, end_block, "if.main"),
                    else_body_block, end_block, "if.else"),
                end_block), "if_stat", main_body_block))

\* if (!start_block->getTerminator()) { ...CreateCondBr(...); } (lines 363-367)
CondBranchIfOpen(st0, start_block, condition_value, main_body_block, end_block) ==
    The({IF st.err = "" /\ ~getTerminator(BlockOf(st, start_block))
         THEN Insert(SetInsertPoint(st, start_block), "condbr", <<condition_value>>,
                     <<main_body_block, end_block>>, "", "if.cond")
         ELSE st
         : st \in {st0}})

\* visit(if_stat), else_body null (lines 358-376)
VisitIfOnly(st, node, condition_value, start_block, main_body_block) ==
    LET end_block == NewBlock(st)
    IN  Returned(SetInsertPoint(
            BranchIfOpen(
                CondBranchIfOpen(BasicBlockCreate(st, "end"), start_block, condition_value,
                                 main_body_block, end_block),
                main_body_block, end_block, "if.main"),
            end_block), "if_stat", main_body_block)

\* visit(if_stat)
VisitIf(st, node) ==
    Bind(VisitExpr(st, node.e[1]), LAMBDA s1 :
    Bind(VisitBody(SetInsertPoint(BasicBlockCreate(
                                     Entered(s1, "if_stat", NewBlock(s1)), "mainbody"),
                                  NewBlock(s1)),
                   node, "main_body", "if.main", NewBlock(s1)), LAMBDA s2 :
    LET condition_value == s1.value
        start_block == GetInsertBlock(s1)
        main_body_block == NewBlock(s1)
    IN  IF s2.err # "" THEN s2
        ELSE IF node.has_else
        THEN VisitIfElse(s2, node, condition_value, start_block, main_body_block)
        ELSE VisitIfOnly(s2, node, condition_value, start_block, main_body_block)))

\* dispatch on the node kind; expression_ and normal_block return true, so
\* their children are visited in place
VisitStmt(st0, node) ==
    The({IF st.err # "" THEN st
         ELSE CASE node.kind = "ret" -> VisitRet(st, node)
                [] node.kind = "assignment" -> VisitAssignment(st, node)
                [] node.kind = "while_loop" -> VisitWhile(st, node)
                [] node.kind = "if_stat" -> VisitIf(st, node)
                [] node.kind = "expression_" -> VisitExpr(st, node.e[1])
                [] node.kind = "normal_block" -> VisitStmts(st, node.main)
         : st \in {st0}})

VisitStmts(st0, stmts) ==
    The({IF stmts = <<>> \/ st.err # "" THEN st
         ELSE VisitStmts(VisitStmt(st, Head(stmts)), Tail(stmts))
         : st \in {st0}})

----------------------------------------------------------------------------
(* code_generation: functions *)

\* a top-level definition: function_definition or extern_function_definition
FunctionDefinition(signature, body) ==
    [kind |-> "function_definition", signature |-> signature, body |-> body]

ExternFunctionDefinition(signature) ==
    [kind |-> "extern_function_definition", signature |-> signature, body |-> <<>>]

\* llvm::verifyFunction: TRUE if the function is broken.  Of the verifier's
\* rules the model keeps the one on block structure: every block ends in a
\* terminator and holds no other terminator.
BlockWellFormed(block) ==
    /\ Len(block.insts) > 0
    /\ IsTerminator(Last(block.insts))
    /\ \A i \in 1..(Len(block.insts) - 1) : ~IsTerminator(block.insts[i])

verifyFunction(function) ==
    \E b \in 1..Len(function.blocks) : ~BlockWellFormed(function.blocks[b])

\* llvm::verifyModule: TRUE if some function of the module is broken
verifyModule(module) ==
    \E f \in 1..Len(module) : verifyFunction(module[f])

\* compile_function whose implicit return is inserted only into a block
\* that has no terminator
LowerFunctionReturnIfOpen(st, func) ==
    Bind(get_or_declare_function(st, func.signature), LAMBDA s1 :
    IF s1.err # "" THEN s1
    ELSE Bind(VisitStmts(SetInsertPoint(BasicBlockCreate([s1 EXCEPT !.fn = s1.func],
                                                         "entry"),
                                        Len(s1.module[s1.func].blocks) + 1),
                         func.body), LAMBDA s2 :
         IF "constructor" \in func.signature.attributes
            /\ s2.err = "" /\ ~getTerminator(BlockOf(s2, s2.cur))
         THEN Insert(s2, "retvoid", <<>>, <<>>, "", "constructor")
         ELSE s2))

\* compile_function up to the verification: st.fn is llvm_func
LowerFunction(st, func) ==
    Bind(get_or_declare_function(st, func.signature), LAMBDA s1 :
    IF s1.err # "" THEN s1
    ELSE Bind(VisitStmts(SetInsertPoint(BasicBlockCreate([s1 EXCEPT !.fn = s1.func],
                                                         "entry"),
                                        Len(s1.module[s1.func].blocks) + 1),
                         func.body), LAMBDA s2 :
         IF "constructor" \in func.signature.attributes
         THEN Insert(s2, "retvoid", <<>>, <<>>, "", "constructor")
         ELSE s2))

\* the constructor list with the function put in front
CollectConstructorInFront(constructors, func, llvm_func) ==
    IF "constructor" \in func.signature.attributes
    THEN <<llvm_func>> \o constructors
    ELSE constructors

\* lines 605-610: the constructor list after compile_function(func)
CollectConstructor(constructors, func, llvm_func) ==
    IF "constructor" \in func.signature.attributes
    THEN Append(constructors, llvm_func)
    ELSE constructors

\* lines 649-652: one call per element of constructor_functions
RECURSIVE EmitConstructorCalls(_, _)
EmitConstructorCalls(st, constructors) ==
    IF constructors = <<>> THEN st
    ELSE EmitConstructorCalls(
            Insert(st, "call", <<Value("func", Head(constructors), "")>>, <<>>, "",
                   "entry.call"),
            Tail(constructors))

\* lines 642-654: the entry function is created and filled
SynthesizeEntry(st, constructors) ==
    Insert(EmitConstructorCalls(
              SetInsertPoint(
                 BasicBlockCreate(
                    [st EXCEPT !.module = FunctionCreate(st.module,
                                                         FunctionType("void", <<>>),
                                                         "internal", <<"entry">>),
                               !.fn = Len(st.module) + 1],
                    "entry"),
                 1),
              constructors),
           "retvoid", <<>>, <<>>, "", "entry.ret")

----------------------------------------------------------------------------
(* Translation units *)

PutsSig == Signature(<<"puts">>, <<"string">>, "i32", TRUE, {})
InitSig(attributes) == Signature(<<"init">>, <<>>, "void", TRUE, attributes)
EntrySig == Signature(<<"entry">>, <<>>, "void", TRUE, {})
BadSig == Signature(<<"bad">>, <<"void">>, "void", TRUE, {})
FSig(attributes) == Signature(<<"f">>, <<>>, "void", FALSE, attributes)
GSig(attributes) == Signature(<<"g">>, <<"i32", "i32">>, "i32", FALSE, attributes)

AttributeSets == {{}, {"constructor"}}

ExternSignatures ==
    {PutsSig, EntrySig, BadSig} \cup {InitSig(a) : a \in AttributeSets}

FunctionSignatures ==
    {FSig(a) : a \in AttributeSets} \cup {GSig(a) : a \in AttributeSets}

\* the declaration a signature stands for (attributes are not part of it)
Declared(signature) == <<signature.is_extern, signature.name, signature.mangled_name>>

\* bodies of a function of a wide translation unit, which may refer to the
\* signatures the unit declares
WideBodies(signatures) ==
    {<<>>, <<Ret>>, <<ExpressionStmt(Call(VariableRef(1, "i32"), <<>>))>>}
    \cup {<<ExpressionStmt(Call(SymbolWrapper(sig), <<>>))>> : sig \in signatures}

\* the units that declare the signatures h[1], ..., h[Len(h)] in that order
UnitsOf(h) ==
    LET defs == {ExternFunctionDefinition(sig) : sig \in Range(h) \cap ExternSignatures}
                \cup {FunctionDefinition(sig, body) :
                        sig \in Range(h) \cap FunctionSignatures,
                        body \in WideBodies(Range(h))}
    IN  {u \in [1..Len(h) -> defs] : \A i \in 1..Len(h) : u[i].signature = h[i]}

WideUnits ==
    UNION {UnitsOf(h) :
            h \in {g \in SeqsUpTo(ExternSignatures \cup FunctionSignatures, MaxDefs) :
                    \A i, j \in 1..Len(g) : i # j => Declared(g[i]) # Declared(g[j])}}

\* statements of a deep body
Condition == VariableRef(2, "bool")

Leaves ==
    {Ret, RetValue(VariableRef(1, "i32")),
     Assignment(VariableRef(1, "i32"), NumberLiteral("uint64", 7, "i32"))}

RECURSIVE StmtsOfSize(_), ListsOfSize(_)

\* the statements with exactly n statement nodes
StmtsOfSize(n) ==
    IF n = 0 THEN {}
    ELSE (IF n = 1 THEN Leaves ELSE {})
         \cup {If(Condition, b) : b \in ListsOfSize(n - 1)}
         \cup {While(Condition, b) : b \in ListsOfSize(n - 1)}
         \cup {NormalBlock(b) : b \in ListsOfSize(n - 1)}
         \cup UNION {{IfElse(Condition, b, e) :
                        b \in ListsOfSize(k), e \in ListsOfSize(n - 1 - k)} :
                     k \in 0..(n - 1)}

\* the statement lists with exactly n statement nodes in all
ListsOfSize(n) ==
    IF n = 0 THEN {<<>>}
    ELSE UNION {{<<s>> \o l : s \in StmtsOfSize(k), l \in ListsOfSize(n - k)} :
                k \in 1..n}

DeepUnits ==
    {<<FunctionDefinition(FSig(a), body)>> :
        a \in AttributeSets, body \in UNION {ListsOfSize(n) : n \in 0..MaxStmts}}

\* functions that return one binary operation over two operands
BinaryOperations ==
    {"symbol_add", "symbol_minus", "symbol_multiply", "symbol_divide", "symbol_eq",
     "symbol_neq", "symbol_lt", "symbol_lteq", "symbol_gt", "symbol_gteq"}

Operands ==
    {VariableRef(1, "i32"), VariableRef(2, "i32"), NumberLiteral("uint64", 1, "i32"),
     NumberLiteral("uint64", 1, "u32"), NumberLiteral("double", 2, "f32"),
     NumberLiteral("double", 2, "f64")}

\* the evaluated type the resolver attaches to a binary operation
BinaryType(operation, left, right) ==
    IF operation \in {"symbol_eq", "symbol_neq", "symbol_lt", "symbol_lteq",
                      "symbol_gt", "symbol_gteq"}
    THEN "bool"
    ELSE IF left.ty \in {"f32", "f64"} THEN left.ty ELSE right.ty

ExpressionUnits ==
    {<<FunctionDefinition(GSig({}),
                          <<RetValue(Binary(op, l, r, BinaryType(op, l, r)))>>)>> :
        op \in BinaryOperations \cup {"symbol_mod"}, l \in Operands, r \in Operands}

\* functions whose body is one call: the callee a function symbol or a
\* variable, the arguments variables, literals and calls
Callees == {SymbolWrapper(GSig({})), SymbolWrapper(PutsSig), VariableRef(3, "i32")}

ArgumentExpressions ==
    {VariableRef(1, "i32"), VariableRef(2, "i32"), NumberLiteral("uint64", 1, "i32"),
     Call(SymbolWrapper(InitSig({})), <<>>)}

CallUnits ==
    {<<FunctionDefinition(FSig({}), <<ExpressionStmt(Call(callee, arguments))>>)>> :
        callee \in Callees, arguments \in SeqsUpTo(ArgumentExpressions, MaxArgs)}

\* functions whose if or while follows a return and has a literal condition,
\* which lowers to a constant: no instruction separates the two
LiteralUnits ==
    {<<FunctionDefinition(FSig({}), <<Ret, s>>)>> :
        s \in {If(BoolLiteral(TRUE), <<>>), If(BoolLiteral(TRUE), <<Ret>>), IfElse(BoolLiteral(TRUE), <<>>, <<>>),
               While(BoolLiteral(TRUE), <<>>)}}

TranslationUnits == WideUnits \cup DeepUnits \cup ExpressionUnits \cup LiteralUnits
                    \cup CallUnits

----------------------------------------------------------------------------
(* code_generation::generate() as a state machine: one step per iteration  *)
(* of its two loops, one for the entry synthesis and the return.           *)

Init ==
    /\ pc = "start"
    /\ mod_ \in TranslationUnits
    /\ collected_extern_functions = <<>>
    /\ collected_functions = <<>>
    /\ idx = 0
    /\ function_type_map = <<>>
    /\ llvm_module = <<>>
    /\ constructor_functions = <<>>
    /\ entry_function = 0
    /\ verify_errors = <<>>
    /\ returned = FALSE
    /\ err = ""
    /\ log = <<>>
    /\ calls = <<>>
    /\ type_collector_ = NotConstructed
    /\ type_resolver_ = NotConstructed

\* the definitions of a kind, last declared first
RECURSIVE CollectedReversed(_, _)
CollectedReversed(body, kind) ==
    IF body = <<>> THEN <<>>
    ELSE IF Head(body).kind = kind
         THEN CollectedReversed(Tail(body), kind) \o <<Head(body)>>
         ELSE CollectedReversed(Tail(body), kind)

\* the definitions of a kind, in declaration order (function_collector)
RECURSIVE Collected(_, _)
Collected(body, kind) ==
    IF body = <<>> THEN <<>>
    ELSE IF Head(body).kind = kind
         THEN <<Head(body)>> \o Collected(Tail(body), kind)
         ELSE Collected(Tail(body), kind)

\* the position of generate() when item i of a loop is next
Position(stage, i, externs, functions) ==
    IF stage = "externs" /\ i <= externs THEN [pc |-> "externs", idx |-> i]
    ELSE IF stage = "externs" /\ functions >= 1 THEN [pc |-> "functions", idx |-> 1]
    ELSE IF stage = "functions" /\ i <= functions THEN [pc |-> "functions", idx |-> i]
    ELSE [pc |-> "entry", idx |-> 0]

\* lines 627-628
Collect ==
    /\ pc = "start"
    /\ collected_extern_functions' = Collected(mod_, "extern_function_definition")
    /\ collected_functions' = Collected(mod_, "function_definition")
    /\ \E p \in {Position("externs", 1, Len(Collected(mod_, "extern_function_definition")),
                          Len(Collected(mod_, "function_definition")))} :
           pc' = p.pc /\ idx' = p.idx
    /\ UNCHANGED passVars
    /\ UNCHANGED <<mod_, function_type_map, llvm_module, constructor_functions,
                   entry_function, verify_errors, returned, err, log, calls>>

\* lines 631-634, one iteration: compile_extern_function
CompileExternFunction ==
    /\ pc = "externs"
    /\ \E st \in {get_or_declare_function(
                        NewState(llvm_module, function_type_map, log),
                        collected_extern_functions[idx].signature)},
          p \in {Position("externs", idx + 1, Len(collected_extern_functions),
                          Len(collected_functions))} :
           /\ llvm_module' = st.module
           /\ function_type_map' = st.function_type_map
           /\ log' = st.log
           /\ err' = st.err
           /\ pc' = IF st.err # "" THEN "failed" ELSE p.pc
           /\ idx' = IF st.err # "" THEN idx ELSE p.idx
    /\ UNCHANGED passVars
    /\ UNCHANGED <<mod_, collected_extern_functions, collected_functions,
                   constructor_functions, entry_function, verify_errors, returned, calls>>

\* lines 637-640, one iteration: compile_function
CompileFunction ==
    /\ pc = "functions"
    /\ \E st \in {LowerFunction(NewState(llvm_module, function_type_map, log),
                                  collected_functions[idx])},
          p \in {Position("functions", idx + 1, Len(collected_extern_functions),
                          Len(collected_functions))} :
           /\ llvm_module' = st.module
           /\ function_type_map' = st.function_type_map
           /\ log' = st.log
           /\ err' = st.err
           /\ IF st.err # ""
              THEN /\ pc' = "failed"
                   /\ UNCHANGED <<idx, constructor_functions, verify_errors>>
              ELSE /\ pc' = p.pc
                   /\ idx' = p.idx
                   /\ constructor_functions' =
                         CollectConstructor(constructor_functions, collected_functions[idx],
                                            st.fn)
                   /\ verify_errors' = IF verifyFunction(st.module[st.fn])
                                       THEN Append(verify_errors, st.fn)
                                       ELSE verify_errors
    /\ UNCHANGED passVars
    /\ UNCHANGED <<mod_, collected_extern_functions, collected_functions,
                   entry_function, returned, calls>>

\* lines 642-663: the entry function, the module verification, the return
GenerateEntry ==
    /\ pc = "entry"
    /\ \E st \in {SynthesizeEntry(NewState(llvm_module, function_type_map, log),
                                    constructor_functions)} :
           /\ llvm_module' = st.module
           /\ log' = st.log
           /\ entry_function' = st.fn
           /\ verify_errors' = IF verifyModule(st.module)
                               THEN Append(verify_errors, 0)
                               ELSE verify_errors
    /\ returned' = TRUE
    /\ pc' = "done"
    /\ UNCHANGED passVars
    /\ UNCHANGED <<mod_, collected_extern_functions, collected_functions, idx,
                   function_type_map, constructor_functions, err, calls>>

Next == Collect \/ CompileExternFunction \/ CompileFunction \/ GenerateEntry

Spec == Init /\ [][Next]_vars

----------------------------------------------------------------------------
(* get_llvm_function_type called directly, any signatures in any order *)

ApiSignatures ==
    ExternSignatures \cup FunctionSignatures
    \cup {Signature(<<"k">>, <<"class">>, "void", FALSE, {})}

InitApi ==
    /\ pc = "api"
    /\ mod_ = <<>>
    /\ collected_extern_functions = <<>>
    /\ collected_functions = <<>>
    /\ idx = 0
    /\ function_type_map = <<>>
    /\ llvm_module = <<>>
    /\ constructor_functions = <<>>
    /\ entry_function = 0
    /\ verify_errors = <<>>
    /\ returned = FALSE
    /\ err = ""
    /\ log = <<>>
    /\ calls = <<>>
    /\ type_collector_ = NotConstructed
    /\ type_resolver_ = NotConstructed

CallGetLlvmFunctionType ==
    /\ pc = "api"
    /\ Len(calls) < MaxCalls
    /\ \E signature \in ApiSignatures :
          \E r \in {get_llvm_function_type(function_type_map, signature)} :
              /\ function_type_map' = r.map
              /\ calls' = Append(calls, [api |-> "get_llvm_function_type",
                                         signature |-> signature, ft |-> r.ft,
                                         err |-> r.err])
    /\ UNCHANGED passVars
    /\ UNCHANGED <<pc, mod_, collected_extern_functions, collected_functions, idx,
                   llvm_module, constructor_functions, entry_function, verify_errors,
                   returned, err, log>>

NextApi == CallGetLlvmFunctionType

SpecApi == InitApi /\ [][NextApi]_vars

----------------------------------------------------------------------------
(* get_llvm_function_type and get_or_declare_function called directly, any *)
(* signatures in any order; a caller catches what a call throws.           *)

CallGetOrDeclareFunction ==
    /\ pc = "api"
    /\ Len(calls) < MaxCalls
    /\ \E signature \in ApiSignatures :
          \E st \in {get_or_declare_function(
                         NewState(llvm_module, function_type_map, log), signature)} :
              /\ llvm_module' = st.module
              /\ function_type_map' = st.function_type_map
              /\ log' = st.log
              /\ calls' = Append(calls, [api |-> "get_or_declare_function",
                                         signature |-> signature,
                                         ft |-> IF st.err = ""
                                                THEN st.module[st.func].type
                                                ELSE NoFunctionType,
                                         err |-> st.err])
    /\ UNCHANGED passVars
    /\ UNCHANGED <<pc, mod_, collected_extern_functions, collected_functions, idx,
                   constructor_functions, entry_function, verify_errors, returned, err>>

NextDeclare == CallGetLlvmFunctionType \/ CallGetOrDeclareFunction

SpecDeclare == InitApi /\ [][NextDeclare]_vars

----------------------------------------------------------------------------
(* get_llvm_type called directly, any type descriptors in any order; calls *)
(* records the descriptor of each call with what the call returned.        *)

InitType ==
    /\ pc = "type"
    /\ mod_ = <<>>
    /\ collected_extern_functions = <<>>
    /\ collected_functions = <<>>
    /\ idx = 0
    /\ function_type_map = <<>>
    /\ llvm_module = <<>>
    /\ constructor_functions = <<>>
    /\ entry_function = 0
    /\ verify_errors = <<>>
    /\ returned = FALSE
    /\ err = ""
    /\ log = <<>>
    /\ calls = <<>>
    /\ type_collector_ = NotConstructed
    /\ type_resolver_ = NotConstructed

CallGetLlvmType ==
    /\ pc = "type"
    /\ Len(calls) < MaxCalls
    /\ \E t \in TypeDescriptors :
          \E r \in {get_llvm_type(t)} :
              calls' = Append(calls, [t |-> t, ty |-> r.ty, err |-> r.err])
    /\ UNCHANGED passVars
    /\ UNCHANGED <<pc, mod_, collected_extern_functions, collected_functions, idx,
                   function_type_map, llvm_module, constructor_functions,
                   entry_function, verify_errors, returned, err, log>>

NextType == CallGetLlvmType

SpecType == InitType /\ [][NextType]_vars

----------------------------------------------------------------------------
(* pass::run_passes (pass.cpp).  The root is a sequence of declarations: a *)
(* type declaration, or a function declaration with the names its         *)
(* signature and body refer to.  The two passes are modelled from their    *)
(* description: the collector registers each declared name and raises on  *)
(* a duplicate; the resolver binds each reference to a collected entry    *)
(* and raises on a reference it cannot bind.  One step per visited node.   *)

TypeDeclaration(name) == [kind |-> "type", name |-> name, references |-> {}]

FunctionDeclaration(name, references) ==
    [kind |-> "function", name |-> name, references |-> references]

Declarations ==
    {TypeDeclaration("A"), TypeDeclaration("B"),
     FunctionDeclaration("f", {}), FunctionDeclaration("f", {"A"}),
     FunctionDeclaration("g", {"f", "B"})}

Roots == SeqsUpTo(Declarations, MaxNodes)

\* type_collector's visit of one declaration: the tables, or the exception
TypeCollectorVisit(collector, node) ==
    IF node.kind = "type"
    THEN IF node.name \in DOMAIN collector.type_map_
         THEN [collector |-> collector, err |-> "declaration collision"]
         ELSE [collector |-> [collector EXCEPT
                                !.type_map_ = Emplace(@, node.name, node)],
               err |-> ""]
    ELSE IF node.name \in DOMAIN collector.function_map_
         THEN [collector |-> collector, err |-> "declaration collision"]
         ELSE [collector |-> [collector EXCEPT
                                !.function_map_ = Emplace(@, node.name, node)],
               err |-> ""]

\* type_resolver's visit of one declaration: the exception, if any
TypeResolverVisit(resolver, node) ==
    IF node.references \subseteq (DOMAIN resolver.type_map_ \cup DOMAIN resolver.function_map_)
    THEN ""
    ELSE "resolution error"

\* a resolver constructed with tables of its own
ResolverWithOwnTables(collector) ==
    [constructed |-> TRUE, type_map_ |-> <<>>, function_map_ |-> <<>>]

\* line 14: the resolver is constructed with the collector's two tables
ConstructTypeResolver(collector) ==
    [constructed |-> TRUE,
     type_map_ |-> collector.type_map_,
     function_map_ |-> collector.function_map_]

InitPass ==
    /\ pc = "run_passes"
    /\ mod_ \in Roots
    /\ collected_extern_functions = <<>>
    /\ collected_functions = <<>>
    /\ idx = 0
    /\ function_type_map = <<>>
    /\ llvm_module = <<>>
    /\ constructor_functions = <<>>
    /\ entry_function = 0
    /\ verify_errors = <<>>
    /\ returned = FALSE
    /\ err = ""
    /\ log = <<>>
    /\ calls = <<>>
    /\ type_collector_ = NotConstructed
    /\ type_resolver_ = NotConstructed

generateVars ==
    <<mod_, collected_extern_functions, collected_functions, function_type_map,
      llvm_module, constructor_functions, entry_function, verify_errors, returned, calls>>

\* line 11: type_collector type_collector_;
ConstructCollector ==
    /\ pc = "run_passes"
    /\ type_collector_' = [NotConstructed EXCEPT !.constructed = TRUE]
    /\ pc' = "type_collector"
    /\ idx' = 1
    /\ UNCHANGED <<generateVars, type_resolver_, err, log>>

\* line 12: type_collector_.run(root), one declaration
CollectorVisit ==
    /\ pc = "type_collector"
    /\ idx <= Len(mod_)
    /\ \E r \in {TypeCollectorVisit(type_collector_, mod_[idx])} :
          /\ type_collector_' = r.collector
          /\ err' = r.err
          /\ pc' = IF r.err # "" THEN "raised" ELSE pc
          /\ idx' = IF r.err # "" THEN idx ELSE idx + 1
    /\ log' = Append(log, LogEntry("visit", "type_collector", <<mod_[idx].name>>, 0, 0,
                                   FALSE, "", idx, <<>>))
    /\ UNCHANGED <<generateVars, type_resolver_>>

\* line 14: type_resolver type_resolver_{ type_map_, function_map_ };
ConstructResolver ==
    /\ pc = "type_collector"
    /\ idx > Len(mod_)
    /\ type_resolver_' = ConstructTypeResolver(type_collector_)
    /\ pc' = "type_resolver"
    /\ idx' = 1
    /\ UNCHANGED <<generateVars, type_collector_, err, log>>

\* line 15: type_resolver_.run(root), one declaration
ResolverVisit ==
    /\ pc = "type_resolver"
    /\ idx <= Len(mod_)
    /\ \E e \in {TypeResolverVisit(type_resolver_, mod_[idx])} :
          /\ err' = e
          /\ pc' = IF e # "" THEN "raised" ELSE pc
          /\ idx' = IF e # "" THEN idx ELSE idx + 1
    /\ log' = Append(log, LogEntry("visit", "type_resolver", <<mod_[idx].name>>, 0, 0,
                                   FALSE, "", idx, <<>>))
    /\ UNCHANGED <<generateVars, passVars>>

\* line 16: run_passes returns
ReturnFromPasses ==
    /\ pc = "type_resolver"
    /\ idx > Len(mod_)
    /\ pc' = "returned"
    /\ UNCHANGED <<generateVars, passVars, idx, err, log>>

NextPass ==
    \/ ConstructCollector
    \/ CollectorVisit
    \/ ConstructResolver
    \/ ResolverVisit
    \/ ReturnFromPasses

SpecPass == InitPass /\ [][NextPass]_vars

----------------------------------------------------------------------------
(* The visitor handed nodes one by one: compile_function lowers the first  *)
(* statements of a body, then each step lowers the next node of the body,  *)
(* an expression or a statement.  calls records each node with the state   *)
(* of the builder and the module before and after its visit.               *)

\* the statements lowered before the recorded visits: the cursor is left in
\* the entry block (open or closed by a return) or in a later block
Prefixes ==
    {<<>>, <<Ret>>, <<If(BoolLiteral(TRUE), <<>>)>>, <<While(VariableRef(2, "bool"), <<Ret>>)>>}

VisitUnits == {<<FunctionDefinition(FSig({}), prefix)>> : prefix \in Prefixes}

\* one node of each kind of expression, leaves and nested
Expressions ==
    {BoolLiteral(TRUE), NumberLiteral("uint64", 1, "i32"), NumberLiteral("double", 2, "f64"),
     NumberLiteral("uint64", 1, "f32"),
     VariableRef(1, "i32"), VariableRef(4, "class"), SymbolWrapper(PutsSig),
     SymbolWrapper(BadSig),
     Call(SymbolWrapper(GSig({})), <<VariableRef(1, "i32"), NumberLiteral("uint64", 1, "i32")>>),
     Call(VariableRef(3, "i32"), <<>>),
     Binary("symbol_add", VariableRef(1, "i32"), NumberLiteral("uint64", 1, "i32"), "i32"),
     Binary("symbol_lt", Call(SymbolWrapper(InitSig({})), <<>>), VariableRef(2, "i32"), "bool")}

\* one node of each kind of statement
Statements ==
    {Ret, RetValue(VariableRef(1, "i32")),
     Assignment(VariableRef(1, "i32"), NumberLiteral("uint64", 7, "i32")),
     ExpressionStmt(Call(SymbolWrapper(PutsSig), <<VariableRef(1, "i32")>>)),
     If(BoolLiteral(TRUE), <<>>), IfElse(VariableRef(2, "bool"), <<>>, <<Ret>>),
     While(BoolLiteral(TRUE), <<>>)}

InitVisit ==
    /\ pc = "visit.start"
    /\ mod_ \in VisitUnits
    /\ collected_extern_functions = <<>>
    /\ collected_functions = <<>>
    /\ idx = 0
    /\ function_type_map = <<>>
    /\ llvm_module = <<>>
    /\ constructor_functions = <<>>
    /\ entry_function = 0
    /\ verify_errors = <<>>
    /\ returned = FALSE
    /\ err = ""
    /\ log = <<>>
    /\ calls = <<>>
    /\ type_collector_ = NotConstructed
    /\ type_resolver_ = NotConstructed

\* a recorded visit: the node, the state it found and the state it left
Visit(kind, node, before, after) ==
    [kind |-> kind, node |-> node, before |-> before, after |-> after]

\* the state after the visit of a node: the shared members and the history
Visited(kind, node, before, after) ==
    /\ calls' = Append(calls, Visit(kind, node, before, after))
    /\ llvm_module' = after.module
    /\ function_type_map' = after.function_type_map
    /\ log' = after.log
    /\ err' = after.err
    /\ pc' = IF after.err # "" THEN "failed" ELSE "visit"

\* lines 597-603: the function is declared, its entry block created, the
\* builder placed, the first statements of the body lowered
BeginFunction ==
    /\ pc = "visit.start"
    /\ \E before \in {NewState(llvm_module, function_type_map, log)} :
          \E after \in {LowerFunction(before, mod_[1])} :
              Visited("function_definition", mod_[1], before, after)
    /\ UNCHANGED passVars
    /\ UNCHANGED <<mod_, collected_extern_functions, collected_functions, idx,
                   constructor_functions, entry_function, verify_errors, returned>>

\* the next node of the body is an expression
VisitExpression ==
    /\ pc = "visit"
    /\ Len(calls) <= MaxVisits
    /\ \E node \in Expressions :
          \E before \in {Last(calls).after} :
              \E after \in {VisitExpr(before, node)} :
                  Visited("expression", node, before, after)
    /\ UNCHANGED passVars
    /\ UNCHANGED <<mod_, collected_extern_functions, collected_functions, idx,
                   constructor_functions, entry_function, verify_errors, returned>>

\* the next node of the body is a statement
VisitStatement ==
    /\ pc = "visit"
    /\ Len(calls) <= MaxVisits
    /\ \E node \in Statements :
          \E before \in {Last(calls).after} :
              \E after \in {VisitStmt(before, node)} :
                  Visited("statement", node, before, after)
    /\ UNCHANGED passVars
    /\ UNCHANGED <<mod_, collected_extern_functions, collected_functions, idx,
                   constructor_functions, entry_function, verify_errors, returned>>

NextVisit == BeginFunction \/ VisitExpression \/ VisitStatement

SpecVisit == InitVisit /\ [][NextVisit]_vars

----------------------------------------------------------------------------
(* Properties *)

\* the functions compile_function has given a body
LoweredFunctions ==
    {f \in 1..Len(llvm_module) : f # entry_function /\ llvm_module[f].blocks # <<>>}

\* the blocks control can go to from a block: the targets of its first
\* terminator
Successors(block) ==
    IF \E i \in 1..Len(block.insts) : IsTerminator(block.insts[i])
    THEN Range(block.insts[CHOOSE i \in 1..Len(block.insts) :
                             /\ IsTerminator(block.insts[i])
                             /\ \A j \in 1..(i - 1) : ~IsTerminator(block.insts[j])].tgt)
    ELSE {}

RECURSIVE ReachableFrom(_, _)
ReachableFrom(blocks, seen) ==
    LET more == seen \cup UNION {Successors(blocks[b]) : b \in seen}
    IN  IF more = seen THEN seen ELSE ReachableFrom(blocks, more)

\* the blocks reachable from the entry block
Reachable(blocks) == ReachableFrom(blocks, {1})

\* the opcodes of a block
Opcodes(block) == [i \in 1..Len(block.insts) |-> block.insts[i].op]

LogIndices(ev) == {i \in 1..Len(log) : log[i].ev = ev}

\* C1: after compile_function has lowered a function, every block reachable
\* from its entry block ends in exactly one terminator and holds no
\* instruction after a terminator.
C1_ReachableBlocksTerminated ==
    pc # "failed" =>
        \A f \in LoweredFunctions :
            \A b \in Reachable(llvm_module[f].blocks) :
                BlockWellFormed(llvm_module[f].blocks[b])

\* C2: within one function, every reference to the same variable produces
\* the same stack slot, so at most one slot is allocated per variable.
C2_OneSlotPerVariable ==
    \A i, j \in LogIndices("variable") :
        (log[i].fn = log[j].fn /\ log[i].n = log[j].n) => log[i].blk = log[j].blk

\* the instructions that lowering a statement list puts into the block the
\* cursor starts in
FirstBlockOpcodes(stmts) ==
    Opcodes(LowerFunction(NewState(<<>>, <<>>, <<>>),
                          FunctionDefinition(FSig({}), stmts)).module[1].blocks[1])

\* the opcodes of the else block of an if, without the branch to the merge
\* block that the if appends to it
ElseBlockOpcodes(e) ==
    LET ops == Opcodes(llvm_module[e.fn].blocks[e.blk])
    IN  IF \E k \in LogIndices("insert") :
              log[k].fn = e.fn /\ log[k].blk = e.blk /\ log[k].site = "if.else"
        THEN SubSeq(ops, 1, Len(ops) - 1)
        ELSE ops

\* C3: for an if with an else-branch, the else block holds the lowering of
\* the else statements, and the main-body statements are lowered once, into
\* the main body block only.
C3_ElseBlockHoldsElseBody ==
    pc # "failed" =>
        \A i \in LogIndices("body") :
            log[i].site = "if.else" =>
                /\ ElseBlockOpcodes(log[i]) = FirstBlockOpcodes(log[i].stmts[1].els)
                /\ Cardinality({j \in LogIndices("body") :
                                   /\ log[j].fn = log[i].fn
                                   /\ log[j].n = log[i].n
                                   /\ log[j].op = "main_body"}) = 1

\* C4: a cache entry, once written, is never overwritten or removed, and
\* every successful call returned the type the cache holds for its key, so
\* two calls with the same signature return the identical function type.
C4_CacheWriteOnce ==
    [][/\ \A k \in DOMAIN function_type_map :
              k \in DOMAIN function_type_map' /\ function_type_map'[k] = function_type_map[k]
       /\ \A i \in 1..Len(calls') :
              calls'[i].err = "" =>
                  /\ calls'[i].signature.mangled_name \in DOMAIN function_type_map'
                  /\ function_type_map'[calls'[i].signature.mangled_name] = calls'[i].ft
       /\ \A i, j \in 1..Len(calls') :
              (calls'[i].signature = calls'[j].signature
                  /\ calls'[i].err = "" /\ calls'[j].err = "")
              => calls'[i].ft = calls'[j].ft]_vars

C4_Witness ==
    \E i, j \in 1..Len(calls) :
        /\ i < j
        /\ calls[i].signature = calls[j].signature
        /\ calls[i].err = "" /\ calls[j].err = ""
        /\ \E k \in 1..Len(calls) : calls[k].signature # calls[i].signature

\* the function type lowered from a signature's own return and parameter
\* types
OwnFunctionType(signature) ==
    FunctionType(get_llvm_type(signature.return_type).ty,
                 [i \in 1..Len(signature.parameters) |->
                     get_llvm_type(signature.parameters[i]).ty])

\* C5: every function the module registers has the function type lowered
\* from its own signature, never another signature's cached type.
C5_EachSignatureOwnType ==
    \A f \in 1..Len(llvm_module) :
        f # entry_function =>
            \E d \in Range(mod_) :
                /\ ModuleName(d.signature) = llvm_module[f].name
                /\ llvm_module[f].type = OwnFunctionType(d.signature)

\* the identity of a function: what no later call may change
Identity(function) == <<function.name, function.type, function.linkage>>

\* C6: the module holds at most one function per name; a call of
\* get_or_declare_function whose name is registered returns the function the
\* first call created and creates nothing; no function is removed or replaced.
C6_DeduplicatingRegistry ==
    [][/\ \A f, g \in 1..Len(llvm_module') :
              llvm_module'[f].name = llvm_module'[g].name => f = g
       /\ \A i \in {k \in 1..Len(log') : log'[k].ev = "declare"} :
              /\ log'[i].had => log'[i].n = log'[i].blk
              /\ \A j \in {k \in 1..Len(log') : log'[k].ev = "declare"} :
                    log'[j].name = log'[i].name => log'[j].fn = log'[i].fn
       /\ \A f \in 1..Len(llvm_module) :
              /\ f <= Len(llvm_module')
              /\ Identity(llvm_module'[f]) = Identity(llvm_module[f])]_vars

C6_Witness ==
    /\ \E i \in LogIndices("declare") : log[i].had
    /\ Len(llvm_module) >= 2

\* the functions of the unit that carry the constructor attribute, as the
\* module registers them, in declaration order
RECURSIVE ConstructorsOf(_)
ConstructorsOf(definitions) ==
    IF definitions = <<>> THEN <<>>
    ELSE IF "constructor" \in Head(definitions).signature.attributes
         THEN <<getFunction(llvm_module, ModuleName(Head(definitions).signature))>>
              \o ConstructorsOf(Tail(definitions))
         ELSE ConstructorsOf(Tail(definitions))

\* C7: the entry function has one block: one zero-argument call per
\* constructor-tagged ordinary function, in declaration order, then a single
\* void return; no other function is called.
C7_EntryCallsConstructorsInOrder ==
    pc = "done" =>
        LET entry == llvm_module[entry_function]
            expected == ConstructorsOf(Collected(mod_, "function_definition"))
        IN  /\ Len(entry.blocks) = 1
            /\ Len(entry.blocks[1].insts) = Len(expected) + 1
            /\ \A i \in 1..Len(expected) :
                  /\ entry.blocks[1].insts[i].op = "call"
                  /\ entry.blocks[1].insts[i].args = <<Value("func", expected[i], "")>>
            /\ Last(entry.blocks[1].insts).op = "retvoid"
            /\ Last(entry.blocks[1].insts).args = <<>>

C7_Witness ==
    /\ pc = "done"
    /\ Len(constructor_functions) = 2
    /\ llvm_module[constructor_functions[1]].name = GSig({}).mangled_name

\* C8: every function whose signature carries the constructor attribute,
\* ordinary or extern, is called exactly once from the entry function.
C8_EveryConstructorInvokedOnce ==
    pc = "done" =>
        \A d \in Range(mod_) :
            "constructor" \in d.signature.attributes =>
                Cardinality({i \in 1..Len(llvm_module[entry_function].blocks[1].insts) :
                    LET inst == llvm_module[entry_function].blocks[1].insts[i]
                    IN  /\ inst.op = "call"
                        /\ inst.args[1] =
                             Value("func", getFunction(llvm_module,
                                                       ModuleName(d.signature)), "")}) = 1

\* C9: generate() returns a module only if every lowered function and the
\* assembled module passed verification.
C9_ReturnedOnlyIfVerified ==
    returned => (verify_errors = <<>> /\ ~verifyModule(llvm_module))

\* the binary operation a function returns, if its body is that alone
ReturnsBinary(definition) ==
    /\ Len(definition.body) = 1
    /\ definition.body[1].kind = "ret"
    /\ definition.body[1].e # <<>>
    /\ definition.body[1].e[1].kind = "binary"

\* both operands are of an unsigned integer type
BothUnsigned(node) ==
    /\ node.kids[1].ty \in {"u8", "u16", "u32", "u64"}
    /\ node.kids[2].ty \in {"u8", "u16", "u32", "u64"}

\* C10: a binary operation over an operator of the set is lowered to the
\* floating-point instruction if either operand's evaluated type is f32 or
\* f64, else to the signed integer instruction (or the unsigned one if both
\* operands are unsigned); any other operator raises the internal error.
C10_BinaryFormFollowsOperandTypes ==
    (pc \in {"entry", "done", "failed"} /\ Len(mod_) = 1 /\ ReturnsBinary(mod_[1])) =>
        LET node == mod_[1].body[1].e[1]
            float == IsFloatType(node.kids[1].ty) \/ IsFloatType(node.kids[2].ty)
            emitted == {i \in LogIndices("insert") : log[i].site = "binary"}
        IN  IF node.op \in BinaryOperations
            THEN /\ err = ""
                 /\ Cardinality(emitted) = 1
                 /\ \A i \in emitted :
                       \/ log[i].op = BinaryInstruction(node.op, float, FALSE)
                       \/ /\ BothUnsigned(node)
                          /\ log[i].op = BinaryInstruction(node.op, float, TRUE)
            ELSE /\ err = "internal compiler error: invalid binary operation"
                 /\ emitted = {}

\* the opcodes visit(binary) can emit
BinaryOpcodes ==
    {BinaryInstruction(operation, f, u) :
        operation \in BinaryOperations, f \in BOOLEAN, u \in BOOLEAN}

\* the instructions of a function, in any block
InstructionsOf(function) ==
    UNION {Range(function.blocks[b].insts) : b \in 1..Len(function.blocks)}

\* C11: when an operand of a binary operation is a variable reference, the
\* emitted instruction takes a load of the variable's slot as that operand,
\* never the slot itself, and the function returns the instruction's result.
C11_BinaryOperandsLoaded ==
    (pc \in {"entry", "done"} /\ Len(mod_) = 1 /\ ReturnsBinary(mod_[1])
        /\ mod_[1].body[1].e[1].op \in BinaryOperations) =>
        LET node == mod_[1].body[1].e[1]
            insts == llvm_module[1].blocks[1].insts
        IN  /\ \A inst \in InstructionsOf(llvm_module[1]) :
                  inst.op \in BinaryOpcodes =>
                      /\ \A i \in 1..2 :
                            node.kids[i].kind = "variable_ref" =>
                                /\ inst.args[i].k = "load"
                                /\ \E load \in InstructionsOf(llvm_module[1]) :
                                      /\ load.op = "load"
                                      /\ load.id = inst.args[i].n
                                      /\ load.args[1].k = "alloca"
                      /\ Last(insts).op = "ret"
                      /\ Last(insts).args = <<Value(inst.op, inst.id, inst.ty)>>
            /\ \E inst \in InstructionsOf(llvm_module[1]) : inst.op \in BinaryOpcodes

\* C12 as stated: every two different built-in tags produce different IR
\* types, and the same tag always produces the identical IR type.
C12_DistinctTypePerTag ==
    \A i, j \in 1..Len(calls) :
        (calls[i].t \in BuiltInTags /\ calls[j].t \in BuiltInTags) =>
            (calls[i].ty = calls[j].ty <=> calls[i].t = calls[j].t)

\* the storage class of a built-in tag: the tag with its signedness erased
StorageClass(t) ==
    CASE t \in {"u8", "i8"}   -> "int8"
      [] t \in {"u16", "i16"} -> "int16"
      [] t \in {"u32", "i32"} -> "int32"
      [] t \in {"u64", "i64"} -> "int64"
      [] OTHER -> t

\* C12 (amended): two built-in tags produce the identical IR type exactly
\* when they are the same tag or differ only in signedness; in particular
\* the same tag always produces the identical IR type.
C12_DistinctTypePerStorageClass ==
    \A i, j \in 1..Len(calls) :
        (calls[i].t \in BuiltInTags /\ calls[j].t \in BuiltInTags) =>
            /\ calls[i].err = "" /\ calls[j].err = ""
            /\ calls[i].ty = calls[j].ty
                  <=> StorageClass(calls[i].t) = StorageClass(calls[j].t)

C12_Witness ==
    \E i, j, k \in 1..Len(calls) :
        /\ i < j /\ j < k
        /\ calls[i].t = "u8" /\ calls[j].t = "i8" /\ calls[k].t = "u8"
        /\ calls[i].ty = calls[k].ty

\* C13: get_llvm_type returns a type without raising for every built-in
\* tag; for a class type reference and for an unrecognized tag it returns
\* no type and raises the internal compiler error (utils::compiler_exception).
C13_NonBuiltInRaisesCompilerError ==
    \A i \in 1..Len(calls) :
        IF calls[i].t \in BuiltInTags
        THEN calls[i].err = "" /\ calls[i].ty # ""
        ELSE /\ calls[i].ty = ""
             /\ ExceptionClass(calls[i].err) = "utils::compiler_exception"

\* the positions in the log of the events of a kind, in order
RECURSIVE EventsFrom(_, _)
EventsFrom(ev, i) ==
    IF i > Len(log) THEN <<>>
    ELSE IF log[i].ev = ev THEN <<i>> \o EventsFrom(ev, i + 1)
    ELSE EventsFrom(ev, i + 1)

Events(ev) == EventsFrom(ev, 1)

\* the positions in the log where a function body starts: its entry block
BodyStarts ==
    SelectSeq(Events("block"), LAMBDA k : log[k].op = "entry" /\ log[k].fn # entry_function)

\* C14: once the extern loop is over, the first declarations of the module
\* are the extern declarations of the unit in declaration order, whatever
\* the place of the ordinary definitions among them, and all of them
\* precede the first body; the bodies are lowered in declaration order;
\* a function of external linkage has no block.
C14_ExternsBeforeBodies ==
    LET externs == SelectSeq(mod_, LAMBDA d : d.kind = "extern_function_definition")
        functions == SelectSeq(mod_, LAMBDA d : d.kind = "function_definition")
    IN  /\ (pc \in {"functions", "entry", "done"} \/ BodyStarts # <<>>) =>
              /\ Len(Events("declare")) >= Len(externs)
              /\ \A i \in 1..Len(externs) :
                    /\ log[Events("declare")[i]].name = externs[i].signature.name
                    /\ log[Events("declare")[i]].fn =
                          getFunction(llvm_module, externs[i].signature.name)
                    /\ \A k \in 1..Len(BodyStarts) : Events("declare")[i] < BodyStarts[k]
        /\ Len(BodyStarts) <= Len(functions)
        /\ \A k \in 1..Len(BodyStarts) :
              log[BodyStarts[k]].fn =
                  getFunction(llvm_module, functions[k].signature.mangled_name)
        /\ pc \in {"entry", "done"} => Len(BodyStarts) = Len(functions)
        /\ \A f \in 1..Len(llvm_module) :
              llvm_module[f].linkage = "external" => llvm_module[f].blocks = <<>>

C14_Witness ==
    /\ pc = "done"
    /\ Len(mod_) = 2
    /\ mod_[1].kind = "function_definition"
    /\ mod_[2].kind = "extern_function_definition"
    /\ Len(BodyStarts) = 1

\* the builder calls of if and while lowering that insert a branch
BranchSites == {"while.enter", "while.back", "while.cond", "if.cond", "if.main", "if.else"}

\* C15: every branch or conditional branch that if or while lowering
\* inserts goes into a block that has no terminator at that moment
\* (getTerminator() of the block is null just before the insertion).
C15_NoSecondTerminator ==
    \A i \in LogIndices("insert") :
        log[i].site \in BranchSites => ~log[i].had

\* the log entries of the if or while lowering that entry i belongs to
SameLowering(i, ev) ==
    {j \in LogIndices(ev) : log[j].fn = log[i].fn /\ log[j].n = log[i].n}

\* the merge block of an if, the exit block of a while: the "end" block
\* created next after the last body of the lowering of entry i was visited
EndBlock(i) ==
    LET last == CHOOSE j \in SameLowering(i, "bodyend") :
                    \A k \in SameLowering(i, "bodyend") : k <= j
        ends == {k \in LogIndices("block") :
                    k > last /\ log[k].fn = log[i].fn /\ log[k].op = "end"}
    IN  log[CHOOSE k \in ends : \A m \in ends : k <= m].blk

\* the block of a log entry, as the finished module has it
FinalBlock(i) == llvm_module[log[i].fn].blocks[log[i].blk]

\* the block ends in an unconditional branch to target
EndsInBranchTo(block, target) ==
    /\ block.insts # <<>>
    /\ Last(block.insts).op = "br"
    /\ Last(block.insts).tgt = <<target>>

\* C16: when the lowering of a while body finishes in a block without a
\* terminator, that block is closed by an unconditional branch to the loop
\* header.
C16_BodyBranchesBackToHeader ==
    pc # "failed" =>
        \A i \in LogIndices("bodyend") :
            (log[i].site = "while.body" /\ ~log[i].had) =>
                EndsInBranchTo(FinalBlock(i), log[i].n)

\* C17: when the lowering of the main or else branch of an if finishes in a
\* block without a terminator, that block is closed by an unconditional
\* branch to the merge block; the visit of the if returns with the cursor in
\* the merge block.
C17_BranchesJoinMergeBlock ==
    pc # "failed" =>
        /\ \A i \in LogIndices("bodyend") :
              (log[i].site \in {"if.main", "if.else"} /\ ~log[i].had) =>
                  EndsInBranchTo(FinalBlock(i), EndBlock(i))
        /\ \A i \in LogIndices("after") :
              log[i].op = "if_stat" => log[i].blk = EndBlock(i)

\* the "body" entries of the ifs without else and of the whiles whose body
\* is one return statement
ReturnBodies ==
    {i \in LogIndices("body") :
        /\ log[i].site \in {"if.main", "while.body"}
        /\ ~log[i].stmts[1].has_else
        /\ Len(log[i].stmts[1].main) = 1
        /\ log[i].stmts[1].main[1].kind = "ret"}

\* the block ends in a conditional branch to the two targets
EndsInCondBranchTo(block, body, end) ==
    /\ block.insts # <<>>
    /\ Last(block.insts).op = "condbr"
    /\ Last(block.insts).tgt = <<body, end>>

\* the body block holds the lowering of the return and ends in it, and the
\* merge/exit block exists and holds the cursor when the visit returns
ReturnBodyClosed(i) ==
    /\ BlockWellFormed(FinalBlock(i))
    /\ Last(FinalBlock(i).insts).op \in {"ret", "retvoid"}
    /\ \E k \in LogIndices("block") :
          /\ k > i
          /\ log[k].fn = log[i].fn
          /\ log[k].op = "end"
          /\ log[k].blk = EndBlock(i)
    /\ \E k \in SameLowering(i, "after") : log[k].blk = EndBlock(i)

\* the block that branches on the condition: the block before the if, or
\* the loop header
ConditionBlock(i) ==
    IF log[i].site = "while.body"
    THEN llvm_module[log[i].fn].blocks[log[i].n]
    ELSE llvm_module[log[i].fn].blocks[
             log[CHOOSE k \in SameLowering(i, "before") : TRUE].blk]

IsCallUnit ==
    /\ Len(mod_) = 1
    /\ mod_[1].kind = "function_definition"
    /\ Len(mod_[1].body) = 1
    /\ mod_[1].body[1].kind = "expression_"
    /\ mod_[1].body[1].e[1].kind = "call"
    /\ mod_[1].body[1].e[1].kids[1] \in Callees

\* what the evaluation of an argument does, in order: the declarations
\* looked up and the instructions inserted
ArgumentSteps(argument) ==
    CASE argument.kind = "variable_ref" -> <<"alloca">>
      [] argument.kind = "call" -> <<"declare", "call">>
      [] OTHER -> <<>>

RECURSIVE StepsOf(_)
StepsOf(arguments) ==
    IF arguments = <<>> THEN <<>>
    ELSE ArgumentSteps(Head(arguments)) \o StepsOf(Tail(arguments))

\* what the lowering did after it created the entry block of the function
RECURSIVE StepsLogged(_)
StepsLogged(i) ==
    IF i > Len(log) THEN <<>>
    ELSE IF log[i].ev = "declare" THEN <<"declare">> \o StepsLogged(i + 1)
    ELSE IF log[i].ev = "insert" THEN <<log[i].op>> \o StepsLogged(i + 1)
    ELSE StepsLogged(i + 1)

\* the value an argument evaluates to is of the kind the argument yields,
\* and for a literal the constant itself
ArgumentValueOk(argument, value) ==
    CASE argument.kind = "variable_ref" -> value.k = "alloca"
      [] argument.kind = "call" -> value.k = "call"
      [] OTHER -> value = NumberConstant(argument).v

\* C19: when compile_function has lowered the function, or failed: the
\* callee is evaluated first, then each argument left to right,
\* then one call instruction is emitted whose operands are the callee and
\* the argument values in source order; if the callee is not a function the
\* internal compiler error "expected function for call" is raised and no
\* call instruction is emitted.
C19_CallArgumentsInOrder ==
    (IsCallUnit /\ pc \in {"entry", "failed"}) =>
        LET node == mod_[1].body[1].e[1]
            arguments == Tail(node.kids)
            start == CHOOSE i \in LogIndices("block") : log[i].op = "entry"
        IN  IF node.kids[1].kind = "symbol_wrapper"
            THEN /\ err = ""
                 /\ StepsLogged(start) = <<"declare">> \o StepsOf(arguments) \o <<"call">>
                 /\ LET inst == Last(llvm_module[1].blocks[1].insts)
                    IN  /\ inst.op = "call"
                        /\ Len(inst.args) = 1 + Len(arguments)
                        /\ inst.args[1] =
                              Value("func", getFunction(llvm_module,
                                                        ModuleName(node.kids[1].sig)), "")
                        /\ \A i \in 1..Len(arguments) :
                              ArgumentValueOk(arguments[i], inst.args[i + 1])
                        /\ \A i, j \in 1..Len(arguments) :
                              (i < j /\ arguments[i].kind # "number_literal"
                                     /\ arguments[j].kind # "number_literal")
                              => inst.args[i + 1].n < inst.args[j + 1].n
            ELSE /\ pc = "failed"
                 /\ err = "internal compiler error: expected function for call"
                 /\ \A i \in LogIndices("insert") : log[i].op # "call"

C19_Witness ==
    /\ IsCallUnit
    /\ pc = "entry"
    /\ Len(mod_[1].body[1].e[1].kids) = 3
    /\ mod_[1].body[1].e[1].kids[2].kind = "call"
    /\ mod_[1].body[1].e[1].kids[3].kind = "variable_ref"

\* the visits of a pass, as positions of the log
VisitsOf(pass) == {i \in 1..Len(log) : log[i].ev = "visit" /\ log[i].op = pass}

\* the names a root declares, by kind
DeclaredNames(kind) == {mod_[i].name : i \in {k \in 1..Len(mod_) : mod_[k].kind = kind}}

\* C20: the collector has visited every declaration of the root before the
\* resolver's first visit; both visit the declarations of the same root in
\* order; the resolver works on the tables the collector produced, which
\* hold exactly the names the root declares; if the collector raised, the
\* resolver is never constructed and visits nothing.
C20_CollectorThenResolver ==
    /\ \A i \in VisitsOf("type_collector"), j \in VisitsOf("type_resolver") : i < j
    /\ VisitsOf("type_resolver") # {} =>
          Cardinality(VisitsOf("type_collector")) = Len(mod_)
    /\ \A i \in 1..Len(log) :
          log[i].ev = "visit" =>
              /\ log[i].name = <<mod_[log[i].n].name>>
              /\ log[i].n = Cardinality({j \in VisitsOf(log[i].op) : j <= i})
    /\ type_resolver_.constructed =>
          /\ type_resolver_.type_map_ = type_collector_.type_map_
          /\ type_resolver_.function_map_ = type_collector_.function_map_
          /\ DOMAIN type_resolver_.type_map_ = DeclaredNames("type")
          /\ DOMAIN type_resolver_.function_map_ = DeclaredNames("function")
    /\ err = "declaration collision" =>
          /\ pc = "raised"
          /\ ~type_resolver_.constructed
          /\ VisitsOf("type_resolver") = {}
    /\ pc = "returned" => Cardinality(VisitsOf("type_resolver")) = Len(mod_)

C20_Witness ==
    /\ pc = "returned"
    /\ Len(mod_) = 3
    /\ mod_[1] = FunctionDeclaration("g", {"f", "B"})
    /\ mod_[2] = FunctionDeclaration("f", {})
    /\ mod_[3] = TypeDeclaration("B")
    /\ Cardinality(VisitsOf("type_resolver")) = 3

----------------------------------------------------------------------------
(* Frame of the expression visitors *)

\* the visit v left the cursor where it was, created no basic block (a
\* function it declared has none) and only appended instructions that are
\* not terminators, all of them to the block of the cursor
FrameKept(v) ==
    /\ v.after.fn = v.before.fn
    /\ v.after.cur = v.before.cur
    /\ Len(v.after.module) >= Len(v.before.module)
    /\ \A f \in 1..Len(v.after.module) :
          Len(v.after.module[f].blocks) =
              IF f <= Len(v.before.module) THEN Len(v.before.module[f].blocks) ELSE 0
    /\ \A f \in 1..Len(v.before.module) :
          \A k \in 1..Len(v.before.module[f].blocks) :
              /\ Len(v.after.module[f].blocks[k].insts)
                     >= Len(v.before.module[f].blocks[k].insts)
              /\ SubSeq(v.after.module[f].blocks[k].insts, 1,
                        Len(v.before.module[f].blocks[k].insts))
                     = v.before.module[f].blocks[k].insts
              /\ \A i \in (Len(v.before.module[f].blocks[k].insts) + 1)
                              ..Len(v.after.module[f].blocks[k].insts) :
                    ~IsTerminator(v.after.module[f].blocks[k].insts[i])
              /\ (f # v.before.fn \/ k # v.before.cur) =>
                    v.after.module[f].blocks[k] = v.before.module[f].blocks[k]

\* the visits whose node is an expression, or a statement other than a
\* return, an if or a while
FramedVisits ==
    {i \in 1..Len(calls) :
        \/ calls[i].kind = "expression"
        \/ /\ calls[i].kind = "statement"
           /\ calls[i].node.kind \notin {"ret", "if_stat", "while_loop"}}

\* C21: lowering an expression of any kind (bool literal, number literal,
\* variable reference, resolved-symbol reference, call, binary operation)
\* leaves the builder's current block unchanged, creates no basic block and
\* inserts no terminator, also when it ends in an exception; the same holds
\* of every statement that is not a return, an if or a while.
C21_ExpressionsKeepFrame ==
    \A i \in FramedVisits : FrameKept(calls[i])

\* a nested call expression was lowered with the cursor outside the entry
\* block and appended its instructions there
C21_Witness ==
    \E i \in FramedVisits :
        /\ calls[i].kind = "expression"
        /\ calls[i].node.kind = "binary"
        /\ calls[i].node.kids[1].kind = "call"
        /\ calls[i].after.err = ""
        /\ calls[i].before.cur > 1
        /\ Len(calls[i].after.module[calls[i].after.fn].blocks[calls[i].after.cur].insts)
              >= Len(calls[i].before.module[calls[i].before.fn]
                                   .blocks[calls[i].before.cur].insts) + 3
        /\ Len(calls[i].after.module) > Len(calls[i].before.module)

----------------------------------------------------------------------------
(* Exceptions of the function-type cache and the function registry *)

\* the step is a call that threw
Raised == Len(calls') = Len(calls) + 1 /\ Last(calls').err # ""

\* C22: when get_llvm_function_type raises (invalid return type, invalid
\* parameter type, or a type lowering that fails), the function-type cache
\* is left as it was; when that happens inside get_or_declare_function, the
\* module gets no function: it is left as it was and holds no function under
\* the name of the signature.
C22_RaiseLeavesCacheAndModule ==
    [][Raised =>
          /\ function_type_map' = function_type_map
          /\ llvm_module' = llvm_module
          /\ Last(calls').api = "get_or_declare_function" =>
                getFunction(llvm_module', ModuleName(Last(calls').signature)) = 0]_vars

\* get_or_declare_function raised on an invalid parameter type after an
\* earlier call had filled the cache and the module
C22_Witness ==
    /\ Len(calls) = 3
    /\ calls[1].api = "get_or_declare_function" /\ calls[1].err = ""
    /\ calls[2].api = "get_or_declare_function"
    /\ calls[2].err = "TODO: class types are not supported"
    /\ calls[3].api = "get_llvm_function_type"
    /\ calls[3].err = "internal compiler error: invalid parameter type"
    /\ Len(llvm_module) = 1
    /\ Cardinality(DOMAIN function_type_map) = 1

----------------------------------------------------------------------------
(* The implicit return of compile_function *)

\* the definitions of collected_functions that compile_function has lowered
CompiledDefinitions ==
    IF pc = "functions" THEN 1..(idx - 1)
    ELSE IF pc \in {"entry", "done"} THEN 1..Len(collected_functions)
    ELSE {}

\* the builder insertions into function fn
InsertionsInto(fn) ==
    {i \in 1..Len(log) : log[i].ev = "insert" /\ log[i].fn = fn}

\* the insertions into fn made by compile_function itself
ImplicitReturns(fn) == {i \in InsertionsInto(fn) : log[i].site = "constructor"}

\* the block of the cursor once the body of fn is lowered: the block in
\* which the last if or while left it, or the entry block
CursorAfterBody(fn) ==
    IF \E i \in 1..Len(log) : log[i].ev = "after" /\ log[i].fn = fn
    THEN log[CHOOSE i \in 1..Len(log) :
                /\ log[i].ev = "after" /\ log[i].fn = fn
                /\ \A j \in 1..Len(log) :
                      log[j].ev = "after" /\ log[j].fn = fn => j <= i].blk
    ELSE 1

\* C23: compile_function appends one void return, at the builder cursor and
\* after everything the body inserted, if and only if the signature carries
\* the "constructor" attribute, whether or not the cursor's block already
\* ends in a terminator; a function without the attribute gets no
\* instruction but those of its statements, so every terminator it holds
\* was inserted by a return, an if or a while of its body.
C23_ImplicitReturnIffConstructor ==
    \A k \in CompiledDefinitions :
        \E fn \in {getFunction(llvm_module, ModuleName(collected_functions[k].signature))} :
            /\ fn # 0
            /\ IF "constructor" \in collected_functions[k].signature.attributes
               THEN /\ Cardinality(ImplicitReturns(fn)) = 1
                    /\ \A i \in ImplicitReturns(fn) :
                          /\ log[i].op = "retvoid"
                          /\ log[i].blk = CursorAfterBody(fn)
                          /\ \A j \in InsertionsInto(fn) : j <= i
                          /\ Last(llvm_module[fn].blocks[log[i].blk].insts).op = "retvoid"
                          /\ log[i].had =
                                (/\ Len(llvm_module[fn].blocks[log[i].blk].insts) > 1
                                 /\ IsTerminator(
                                       llvm_module[fn].blocks[log[i].blk].insts[
                                          Len(llvm_module[fn].blocks[log[i].blk].insts) - 1]))
               ELSE /\ ImplicitReturns(fn) = {}
                    /\ \A i \in InsertionsInto(fn) :
                          log[i].op \in Terminators =>
                              log[i].site \in {"ret"} \cup BranchSites

\* a constructor whose body ends in a return got the implicit return behind
\* it, and a function without the attribute was lowered next to it
C23_Witness ==
    /\ pc = "done"
    /\ \E k \in CompiledDefinitions :
          /\ "constructor" \in collected_functions[k].signature.attributes
          /\ \E i \in ImplicitReturns(getFunction(llvm_module,
                                      ModuleName(collected_functions[k].signature))) :
                log[i].had /\ log[i].blk = 1
    /\ \E k \in CompiledDefinitions :
          /\ "constructor" \notin collected_functions[k].signature.attributes
          /\ collected_functions[k].body = <<Ret>>

====
